---- MODULE Spec2Model ----
(***************************************************************************)
(* A model of the aleo-prover-monitor revisions:                           *)
(*   "P1"      src/main.go lines 1-313   (a gauge is created, registered   *)
(*             and pushed inside every fetch function)                     *)
(*   "P2"      src/main.go lines 314-653 (package-level gauge vectors,     *)
(*             one push at the end of the cycle)                           *)
(*   "Legacy"  src/unnamed/part_002 lines 310-615 with package prometh     *)
(*             (sleep loop, one push per value)                            *)
(*   "P3"      src/unnamed/part_001 (the collectors of P2, the ticker      *)
(*             created before any cycle, every error fatal); the revision  *)
(*             of src/unnamed/part_002 lines 1-309 is P3 with two default  *)
(*             addresses and more log lines                                *)
(* Strings are sequences of one-character atoms, so that the conversions   *)
(* (strconv.ParseFloat, the flag parser) are computed and not assumed.     *)
(* The API server and the Pushgateway are the environment.                 *)
(***************************************************************************)
EXTENDS Integers, Sequences, FiniteSets, TLC

\* ------------------------------------------------------------------------
\* Bounds of the model
\* ------------------------------------------------------------------------
MaxCycles == 2    \* fetch cycles (passes) explored per run
MaxFaults == 1    \* anomalies the environment injects per run

\* ------------------------------------------------------------------------
\* Strings
\* ------------------------------------------------------------------------
Digit == [c \in {"0", "1", "2", "3", "4", "5", "6", "7", "8", "9"} |->
            CASE c = "0" -> 0 [] c = "1" -> 1 [] c = "2" -> 2 [] c = "3" -> 3
              [] c = "4" -> 4 [] c = "5" -> 5 [] c = "6" -> 6 [] c = "7" -> 7
              [] c = "8" -> 8 [] c = "9" -> 9]

DigitChar == <<"0", "1", "2", "3", "4", "5", "6", "7", "8", "9">>

RECURSIVE FormatNum(_)
\* the decimal text the API server writes for a number
FormatNum(n) == IF n < 10 THEN <<DigitChar[n + 1]>>
                ELSE Append(FormatNum(n \div 10), DigitChar[(n % 10) + 1])

RECURSIVE DigitsValue(_, _)
DigitsValue(s, acc) == IF s = <<>> THEN acc
                       ELSE DigitsValue(Tail(s), 10 * acc + Digit[Head(s)])

\* strconv.ParseFloat(s, 64) on the alphabet of the model: a non-empty run of
\* decimal digits parses to its value, anything else is an error
parseFloat(s) ==
    IF s # <<>> /\ \A i \in 1..Len(s) : s[i] \in DOMAIN Digit
    THEN [ok |-> TRUE, val |-> DigitsValue(s, 0)]
    ELSE [ok |-> FALSE, val |-> 0]

Garbage == <<"x">>      \* a string the API may return that is not a number

\* ------------------------------------------------------------------------
\* Command line and address file
\* ------------------------------------------------------------------------
A1 == <<"a", "1">>                      \* one address: "a1"
A1A2 == <<"a", "1", ",", "a", "2">>     \* ADDRESSES of the Makefile: "a1,a2"
Foreign == <<"a", "9">>                 \* an address nobody configured

\* the command lines of the model, as the values of their --addresses flags
\* (Legacy: the lines of the address file): no address, one address, the
\* comma-separated list of the Makefile, two addresses
CommandLines == {<<>>, <<A1>>, <<A1A2>>, <<A1, A1A2>>}

RECURSIVE SplitComma(_, _)
\* strings.Split(s, ","): the comma-separated fields of s (cur is the field
\* being read)
SplitComma(s, cur) ==
    IF s = <<>> THEN <<cur>>
    ELSE IF Head(s) = "," THEN <<cur>> \o SplitComma(Tail(s), <<>>)
    ELSE SplitComma(Tail(s), Append(cur, Head(s)))

\* pflag.StringArrayVar: every occurrence of the flag appends its value,
\* unsplit, to the array
StringArraySet(arr, val) == Append(arr, val)

RECURSIVE StringArrayVar(_)
StringArrayVar(args) == IF args = <<>> THEN <<>>
                        ELSE StringArraySet(StringArrayVar(SubSeq(args, 1, Len(args) - 1)),
                                            args[Len(args)])

\* ------------------------------------------------------------------------
\* The API server (environment)
\* ------------------------------------------------------------------------
RECURSIVE AddrCode(_)
AddrCode(a) == IF a = <<>> THEN 0
               ELSE (IF Head(a) \in DOMAIN Digit THEN Digit[Head(a)] ELSE 0) + AddrCode(Tail(a))

\* what the API knows in epoch k (the k-th cycle of the monitor)
TrueValue(a, k) == 10 * k + AddrCode(a)
TrueTotal(k)    == 10 * k + 8
TrueHeight(k)   == 10 * k + 5
TrueProof(k)    == 10 * k + 6
TrueCoinbase(k) == 10 * k + 7

Item(a, k) == [address |-> a, value |-> FormatNum(TrueValue(a, k)), height |-> TrueValue(a, k)]

TrueList(addrs, k) == [i \in 1..Len(addrs) |-> Item(addrs[i], k)]

ListResponse(l, t) == [err |-> "none", list |-> l, total |-> t]
ErrResponse(e)     == [err |-> e, list |-> <<>>, total |-> <<>>]

\* the responses to a speed or reward request for addrs: the truthful one
\* and, while the fault budget lasts, one anomaly
ListOutcomes(addrs, k, budget) ==
    LET l == TrueList(addrs, k)
        t == FormatNum(TrueTotal(k))
    IN  {[fault |-> 0, resp |-> ListResponse(l, t)]}
        \cup (IF budget = 0 THEN {}
              ELSE {[fault |-> 1, resp |-> r] : r \in
                      {ErrResponse("net"), ErrResponse("json"),
                       ListResponse(<<>>, t),
                       ListResponse(l, Garbage),
                       ListResponse(Append(l, Item(Foreign, k)), t)}
                      \cup {ListResponse([l EXCEPT ![i].value = Garbage], t) : i \in 1..Len(l)}})

\* the responses to a height request: heights are JSON numbers and the
\* response has no total
HeightOutcomes(addrs, k, budget) ==
    LET l == TrueList(addrs, k)
    IN  {[fault |-> 0, resp |-> ListResponse(l, <<>>)]}
        \cup (IF budget = 0 THEN {}
              ELSE {[fault |-> 1, resp |-> r] : r \in
                      {ErrResponse("net"), ErrResponse("json"),
                       ListResponse(<<>>, <<>>),
                       ListResponse(Append(l, Item(Foreign, k)), <<>>)}})

BlockResponse(h, p, c) == [err |-> "none", height |-> h, proof_target |-> p, coinbase_reward |-> c]
BlockErr(e) == [err |-> e, height |-> 0, proof_target |-> <<>>, coinbase_reward |-> <<>>]

BlockOutcomes(k, budget) ==
    LET h == TrueHeight(k)
        p == FormatNum(TrueProof(k))
        c == FormatNum(TrueCoinbase(k))
    IN  {[fault |-> 0, resp |-> BlockResponse(h, p, c)]}
        \cup (IF budget = 0 THEN {}
              ELSE {[fault |-> 1, resp |-> r] : r \in
                      {BlockErr("net"), BlockErr("json"),
                       BlockResponse(h, Garbage, c), BlockResponse(h, p, Garbage)}})
        \cup (IF budget < 2 THEN {}
              ELSE {[fault |-> 2, resp |-> BlockResponse(h, Garbage, Garbage)]})

\* the Pushgateway accepts a push, or (an anomaly) rejects it
PushOutcomes(budget) == {[fault |-> 0, ok |-> TRUE]}
                        \cup (IF budget = 0 THEN {} ELSE {[fault |-> 1, ok |-> FALSE]})

\* ------------------------------------------------------------------------
\* Metrics
\* ------------------------------------------------------------------------
Sample(name, labels, value) == [name |-> name, labels |-> labels, value |-> value]

\* Gauge.Set on the child (name, labels) of a collector set
GaugeSet(g, name, labels, value) ==
    {s \in g : ~(s.name = name /\ s.labels = labels)} \cup {Sample(name, labels, value)}

\* push.New(url, job).Grouping(...).Collector(...).Push(): an HTTP PUT, which
\* replaces every metric of the group (job, grouping)
Push(pg, job, grouping, samples) ==
    {e \in pg : ~(e.job = job /\ e.grouping = grouping)}
    \cup {[job |-> job, grouping |-> grouping, sample |-> s] : s \in samples}

Held(pg, job, grouping) == {e.sample : e \in {x \in pg : x.job = job /\ x.grouping = grouping}}

durations == [n \in {"15m", "1h", "12h", "24h"} |->
                CASE n = "15m" -> 900 [] n = "1h" -> 3600 [] n = "12h" -> 43200 [] n = "24h" -> 86400]

Lbl(k, v) == <<k, v>>

\* ------------------------------------------------------------------------
\* P2: the fetch functions of src/main.go lines 470-616.  Each takes the
\* collectors g and the response of its one request and yields the
\* collectors afterwards, whether it returned an error, and the Set calls
\* it made.
\* ------------------------------------------------------------------------
Result(g, err, sets) == [g |-> g, err |-> err, sets |-> sets]

RECURSIVE P2_speedLoop_Break(_, _, _)
\* P2_speedLoop leaving the loop at the first unparsable speed (break for
\* continue)
P2_speedLoop_Break(acc, list, dn) ==
    IF list = <<>> THEN acc
    ELSE LET item  == Head(list)
             speed == parseFloat(item.value)
             lbls  == <<Lbl("address", item.address), Lbl("duration", dn)>>
         IN  IF ~speed.ok
             THEN acc
             ELSE P2_speedLoop_Break(Result(GaugeSet(acc.g, "prover_speed", lbls, speed.val), FALSE,
                                            Append(acc.sets, Sample("prover_speed", lbls, speed.val))),
                                     Tail(list), dn)

RECURSIVE P2_speedLoop(_, _, _)
P2_speedLoop(acc, list, dn) ==
    IF list = <<>> THEN acc
    ELSE LET item  == Head(list)
             speed == parseFloat(item.value)
             lbls  == <<Lbl("address", item.address), Lbl("duration", dn)>>
         IN  IF ~speed.ok
             THEN P2_speedLoop(acc, Tail(list), dn)
             ELSE P2_speedLoop(Result(GaugeSet(acc.g, "prover_speed", lbls, speed.val), FALSE,
                                      Append(acc.sets, Sample("prover_speed", lbls, speed.val))),
                               Tail(list), dn)

P2_fetchProverSpeed(g, resp, dn) ==
    IF resp.err # "none" THEN Result(g, TRUE, <<>>)
    ELSE LET looped == P2_speedLoop(Result(g, FALSE, <<>>), resp.list, dn)
             total  == parseFloat(resp.total)
             lbls   == <<Lbl("duration", dn)>>
         IN  IF ~total.ok THEN looped
             ELSE Result(GaugeSet(looped.g, "total_speed", lbls, total.val), FALSE,
                         Append(looped.sets, Sample("total_speed", lbls, total.val)))

RECURSIVE P2_rewardLoop(_, _)
P2_rewardLoop(acc, list) ==
    IF list = <<>> THEN acc
    ELSE LET item   == Head(list)
             reward == parseFloat(item.value)
             lbls   == <<Lbl("address", item.address)>>
         IN  IF ~reward.ok
             THEN P2_rewardLoop(acc, Tail(list))
             ELSE P2_rewardLoop(Result(GaugeSet(acc.g, "total_reward", lbls, reward.val), FALSE,
                                       Append(acc.sets, Sample("total_reward", lbls, reward.val))),
                                Tail(list))

P2_fetchProverReward(g, resp) ==
    IF resp.err # "none" THEN Result(g, TRUE, <<>>)
    ELSE P2_rewardLoop(Result(g, FALSE, <<>>), resp.list)

RECURSIVE P2_heightLoop(_, _)
P2_heightLoop(acc, list) ==
    IF list = <<>> THEN acc
    ELSE LET item == Head(list)
             lbls == <<Lbl("address", item.address)>>
         IN  P2_heightLoop(Result(GaugeSet(acc.g, "prover_height", lbls, item.height), FALSE,
                                  Append(acc.sets, Sample("prover_height", lbls, item.height))),
                           Tail(list))

P2_fetchProverLatestHeight(g, resp) ==
    IF resp.err # "none" THEN Result(g, TRUE, <<>>)
    ELSE P2_heightLoop(Result(g, FALSE, <<>>), resp.list)

\* P2_fetchLatestBlock setting the height gauge from the zero-valued result
\* before it looks at the error
P2_fetchLatestBlock_SetFirst(g, resp) ==
    IF resp.err # "none" THEN Result(GaugeSet(g, "latest_block_height", <<>>, 0), TRUE, <<>>)
    ELSE LET g1    == GaugeSet(g, "latest_block_height", <<>>, resp.height)
             s1    == <<Sample("latest_block_height", <<>>, resp.height)>>
             proof == parseFloat(resp.proof_target)
             g2    == GaugeSet(g1, "proof_target", <<>>, proof.val)
             s2    == Append(s1, Sample("proof_target", <<>>, proof.val))
             coin  == parseFloat(resp.coinbase_reward)
         IN  IF ~proof.ok THEN Result(g1, FALSE, s1)
             ELSE IF ~coin.ok THEN Result(g2, FALSE, s2)
             ELSE Result(GaugeSet(g2, "coinbase_reward", <<>>, coin.val), FALSE,
                         Append(s2, Sample("coinbase_reward", <<>>, coin.val)))

P2_fetchLatestBlock(g, resp) ==
    IF resp.err # "none" THEN Result(g, TRUE, <<>>)
    ELSE LET g1    == GaugeSet(g, "latest_block_height", <<>>, resp.height)
             s1    == <<Sample("latest_block_height", <<>>, resp.height)>>
             proof == parseFloat(resp.proof_target)
             g2    == GaugeSet(g1, "proof_target", <<>>, proof.val)
             s2    == Append(s1, Sample("proof_target", <<>>, proof.val))
             coin  == parseFloat(resp.coinbase_reward)
         IN  IF ~proof.ok THEN Result(g1, FALSE, s1)
             ELSE IF ~coin.ok THEN Result(g2, FALSE, s2)
             ELSE Result(GaugeSet(g2, "coinbase_reward", <<>>, coin.val), FALSE,
                         Append(s2, Sample("coinbase_reward", <<>>, coin.val)))

\* the package-level collectors after init(): the three plain gauges exist
\* with value 0, the four vectors have no child yet
P2_init == {Sample("latest_block_height", <<>>, 0), Sample("proof_target", <<>>, 0),
            Sample("coinbase_reward", <<>>, 0)}

\* ------------------------------------------------------------------------
\* State
\* ------------------------------------------------------------------------
VARIABLES
    prog,         \* the revision that runs: "P1", "P2" or "Legacy"
    argv,         \* values of the --addresses flags (Legacy: lines of the file)
    addresses,    \* var addresses []string
    pc,           \* where the main goroutine is
    cycles,       \* fetch cycles (passes) started
    done,         \* fetch cycles (passes) that ran to their end
    idx,          \* loop index: P1 the address, Legacy the duration
    todo,         \* durations the speed loop of the cycle has yet to visit
    sent,         \* speed requests of the cycle, counted per duration
    klog,         \* requests and pushes of the cycle, in order
    last,         \* the latest call of a fetch function: response, result
    tickerOn,     \* time.NewTicker was called
    tickPending,  \* a tick waits in ticker.C (a channel of capacity 1)
    ticksRecv,    \* ticks the main loop took from ticker.C
    gauges,       \* P2: children of the package-level collectors
    registry,     \* P1: descriptors in prometheus.DefaultRegisterer
    pushgateway,  \* metrics the Pushgateway holds
    sleeps,       \* Legacy: calls of time.Sleep, each with the pass it was made in
    faults,       \* anomalies injected so far
    cfaults       \* anomalies injected since the cycle (pass) began

vars == <<prog, argv, addresses, pc, cycles, done, idx, todo, sent, klog, last,
          tickerOn, tickPending, ticksRecv, gauges, registry, pushgateway, sleeps, faults, cfaults>>

Programs == {"P1", "P2", "Legacy"}

NoCall == [fn |-> "none", arg |-> <<>>, resp |-> ErrResponse("none"), err |-> FALSE, sets |-> <<>>]
Call(fn, arg, resp, r) == [fn |-> fn, arg |-> arg, resp |-> resp, err |-> r.err, sets |-> r.sets]

Request(kind, addrs, duration) == [kind |-> kind, addrs |-> addrs, duration |-> duration]
Logged(kind, addrs) == [kind |-> kind, addrs |-> addrs]

\* the state of a process of one of the revisions progs when main() begins
Start(progs) ==
    /\ prog \in progs
    /\ argv \in CommandLines
    /\ addresses = <<>>
    /\ pc = "init"
    /\ cycles = 0
    /\ done = 0
    /\ idx = 1
    /\ todo = {}
    /\ sent = [dn \in DOMAIN durations |-> 0]
    /\ klog = <<>>
    /\ last = NoCall
    /\ tickerOn = FALSE
    /\ tickPending = FALSE
    /\ ticksRecv = 0
    /\ gauges = IF prog \in {"P2", "P3"} THEN P2_init ELSE {}
    /\ registry = {}
    /\ pushgateway = {}
    /\ sleeps = <<>>
    /\ faults = 0
    /\ cfaults = 0

Init == Start(Programs)

\* the environment spends n of its anomalies
Inject(n) == faults' = faults + n /\ cfaults' = cfaults + n

\* entering fetchDataAndPush
BeginCycle ==
    /\ cycles' = cycles + 1
    /\ idx' = 1
    /\ todo' = DOMAIN durations
    /\ sent' = [dn \in DOMAIN durations |-> 0]
    /\ klog' = <<>>
    /\ cfaults' = 0
    /\ pc' = "speed"

\* Main creating the ticker without the startup call of fetchDataAndPush
Main_TickerFirst ==
    /\ prog \in {"P1", "P2"}
    /\ pc = "init"
    /\ addresses' = StringArrayVar(argv)
    /\ IF Len(addresses') = 0
       THEN pc' = "fatal" /\ UNCHANGED tickerOn
       ELSE pc' = "wait" /\ tickerOn' = TRUE
    /\ UNCHANGED <<prog, argv, cycles, idx, todo, sent, klog, cfaults, done, last,
                   tickPending, ticksRecv, gauges, registry, pushgateway, sleeps, faults>>

\* Main without the check of len(addresses)
Main_NoCheck ==
    /\ prog \in {"P1", "P2"}
    /\ pc = "init"
    /\ addresses' = StringArrayVar(argv)
    /\ BeginCycle
    /\ UNCHANGED <<prog, argv, done, last, tickerOn, tickPending, ticksRecv, gauges,
                   registry, pushgateway, sleeps, faults>>

\* main() of P1 and P2 up to the first call of fetchDataAndPush: the flags
\* are parsed, an empty address list is fatal
Main ==
    /\ prog \in {"P1", "P2"}
    /\ pc = "init"
    /\ addresses' = StringArrayVar(argv)
    /\ IF Len(addresses') = 0
       THEN /\ pc' = "fatal"
            /\ UNCHANGED <<cycles, idx, todo, sent, klog, cfaults>>
       ELSE BeginCycle
    /\ UNCHANGED <<prog, argv, done, last, tickerOn, tickPending, ticksRecv, gauges,
                   registry, pushgateway, sleeps, faults>>

\* the runtime timer sends on ticker.C; a tick that finds the channel full
\* is dropped
Tick ==
    /\ tickerOn
    /\ ~tickPending
    /\ tickPending' = TRUE
    /\ UNCHANGED <<prog, argv, addresses, pc, cycles, done, idx, todo, sent, klog, last,
                   tickerOn, ticksRecv, gauges, registry, pushgateway, sleeps, faults, cfaults>>

\* Receive with the cycle started in a goroutine of its own, so that the
\* main loop takes the next tick while a cycle runs
Receive_Go ==
    /\ prog \in {"P1", "P2", "P3"}
    /\ pc \in {"wait", "speed", "reward", "height", "block", "push"}
    /\ tickPending
    /\ cycles < MaxCycles
    /\ tickPending' = FALSE
    /\ ticksRecv' = ticksRecv + 1
    /\ BeginCycle
    /\ UNCHANGED <<prog, argv, addresses, done, last, tickerOn, gauges, registry,
                   pushgateway, sleeps, faults>>

\* case <-ticker.C: fetchDataAndPush()
Receive ==
    /\ prog \in {"P1", "P2", "P3"}
    /\ pc = "wait"
    /\ tickPending
    /\ cycles < MaxCycles
    /\ tickPending' = FALSE
    /\ ticksRecv' = ticksRecv + 1
    /\ BeginCycle
    /\ UNCHANGED <<prog, argv, addresses, done, last, tickerOn, gauges, registry,
                   pushgateway, sleeps, faults>>

\* ------------------------------------------------------------------------
\* P2: the steps of fetchDataAndPush (src/main.go lines 422-468)
\* ------------------------------------------------------------------------
\* P2_Speed with a request for the first address only
P2_Speed_FirstAddress ==
    /\ prog = "P2"
    /\ pc = "speed"
    /\ \E dn \in todo :
         LET req == Request("speed", <<addresses[1]>>, durations[dn])
         IN  \E o \in ListOutcomes(req.addrs, cycles, MaxFaults - faults) :
               LET r == P2_fetchProverSpeed(gauges, o.resp, dn)
               IN  /\ gauges' = r.g
                   /\ last' = Call("fetchProverSpeed", dn, o.resp, r)
                   /\ Inject(o.fault)
                   /\ klog' = Append(klog, Logged(req.kind, req.addrs))
                   /\ sent' = [sent EXCEPT ![dn] = @ + 1]
                   /\ todo' = todo \ {dn}
                   /\ pc' = IF todo' = {} THEN "reward" ELSE "speed"
    /\ UNCHANGED <<prog, argv, addresses, cycles, done, idx, tickerOn, tickPending,
                   ticksRecv, registry, pushgateway, sleeps>>

P2_Speed ==
    /\ prog = "P2"
    /\ pc = "speed"
    /\ \E dn \in todo :
         LET req == Request("speed", addresses, durations[dn])
         IN  \E o \in ListOutcomes(req.addrs, cycles, MaxFaults - faults) :
               LET r == P2_fetchProverSpeed(gauges, o.resp, dn)
               IN  /\ gauges' = r.g
                   /\ last' = Call("fetchProverSpeed", dn, o.resp, r)
                   /\ Inject(o.fault)
                   /\ klog' = Append(klog, Logged(req.kind, req.addrs))
                   /\ sent' = [sent EXCEPT ![dn] = @ + 1]
                   /\ todo' = todo \ {dn}
                   /\ pc' = IF todo' = {} THEN "reward" ELSE "speed"
    /\ UNCHANGED <<prog, argv, addresses, cycles, done, idx, tickerOn, tickPending,
                   ticksRecv, registry, pushgateway, sleeps>>

P2_Reward ==
    /\ prog = "P2"
    /\ pc = "reward"
    /\ LET req == Request("reward", addresses, 0)
       IN  \E o \in ListOutcomes(req.addrs, cycles, MaxFaults - faults) :
             LET r == P2_fetchProverReward(gauges, o.resp)
             IN  /\ gauges' = r.g
                 /\ last' = Call("fetchProverReward", <<>>, o.resp, r)
                 /\ Inject(o.fault)
                 /\ klog' = Append(klog, Logged(req.kind, req.addrs))
                 /\ pc' = "height"
    /\ UNCHANGED <<prog, argv, addresses, cycles, done, idx, todo, sent, tickerOn,
                   tickPending, ticksRecv, registry, pushgateway, sleeps>>

P2_Height ==
    /\ prog = "P2"
    /\ pc = "height"
    /\ LET req == Request("height", addresses, 0)
       IN  \E o \in HeightOutcomes(req.addrs, cycles, MaxFaults - faults) :
             LET r == P2_fetchProverLatestHeight(gauges, o.resp)
             IN  /\ gauges' = r.g
                 /\ last' = Call("fetchProverLatestHeight", <<>>, o.resp, r)
                 /\ Inject(o.fault)
                 /\ klog' = Append(klog, Logged(req.kind, req.addrs))
                 /\ pc' = "block"
    /\ UNCHANGED <<prog, argv, addresses, cycles, done, idx, todo, sent, tickerOn,
                   tickPending, ticksRecv, registry, pushgateway, sleeps>>

P2_Block ==
    /\ prog = "P2"
    /\ pc = "block"
    /\ \E o \in BlockOutcomes(cycles, MaxFaults - faults) :
         LET r == P2_fetchLatestBlock(gauges, o.resp)
         IN  /\ gauges' = r.g
             /\ last' = Call("fetchLatestBlock", <<>>, o.resp, r)
             /\ Inject(o.fault)
             /\ klog' = Append(klog, Logged("block", <<>>))
             /\ pc' = "push"
    /\ UNCHANGED <<prog, argv, addresses, cycles, done, idx, todo, sent, tickerOn,
                   tickPending, ticksRecv, registry, pushgateway, sleeps>>

\* P2_Push with a rejected push made fatal (log.Fatalf for log.Printf)
P2_Push_Fatal ==
    /\ prog = "P2"
    /\ pc = "push"
    /\ \E o \in PushOutcomes(MaxFaults - faults) :
         /\ pushgateway' = IF o.ok THEN Push(pushgateway, "prover_metrics", <<>>, gauges)
                           ELSE pushgateway
         /\ Inject(o.fault)
         /\ pc' = IF o.ok THEN "wait" ELSE "fatal"
         /\ done' = IF o.ok THEN done + 1 ELSE done
         /\ tickerOn' = (tickerOn \/ o.ok)
    /\ klog' = Append(klog, Logged("push", <<>>))
    /\ UNCHANGED <<prog, argv, addresses, cycles, idx, todo, sent, last, tickPending,
                   ticksRecv, gauges, registry, sleeps>>

\* the push of the seven collectors, the return of fetchDataAndPush and, on
\* the return of the startup call, time.NewTicker
P2_Push ==
    /\ prog = "P2"
    /\ pc = "push"
    /\ \E o \in PushOutcomes(MaxFaults - faults) :
         /\ pushgateway' = IF o.ok THEN Push(pushgateway, "prover_metrics", <<>>, gauges)
                           ELSE pushgateway
         /\ Inject(o.fault)
    /\ klog' = Append(klog, Logged("push", <<>>))
    /\ done' = done + 1
    /\ tickerOn' = TRUE
    /\ pc' = "wait"
    /\ UNCHANGED <<prog, argv, addresses, cycles, idx, todo, sent, last, tickPending,
                   ticksRecv, gauges, registry, sleeps>>

\* ------------------------------------------------------------------------
\* P1: src/main.go lines 52-276.  Every fetch function creates its gauges,
\* registers them with the default registry and pushes them itself.
\* ------------------------------------------------------------------------
Desc(name, labels) == [name |-> name, labels |-> labels]

\* Registry.Register: a descriptor with the name and constant label values
\* of a registered one is refused (MustRegister then panics)
CanRegister(reg, d) == d \notin reg

P1Result(reg, pg, err, panic, pushed, sets) ==
    [reg |-> reg, pg |-> pg, err |-> err, panic |-> panic, pushed |-> pushed, sets |-> sets]

RECURSIVE P1_loop(_, _, _, _)
\* the loops over result.Data.List: acc.v is the value of the one gauge
P1_loop(acc, list, name, lbls) ==
    IF list = <<>> THEN acc
    ELSE LET x == parseFloat(Head(list).value)
         IN  IF ~x.ok THEN P1_loop(acc, Tail(list), name, lbls)
             ELSE P1_loop([v |-> x.val, sets |-> Append(acc.sets, Sample(name, lbls, x.val))],
                          Tail(list), name, lbls)

P1_fetchProverSpeed(reg, pg, address, dn, resp, pushOk) ==
    LET l1     == <<Lbl("address", address), Lbl("duration", dn)>>
        l2     == <<Lbl("duration", dn)>>
        d1     == Desc("prover_speed", l1)
        d2     == Desc("total_speed", l2)
        reg1   == reg \cup {d1}
        reg2   == reg1 \cup {d2}
        looped == P1_loop([v |-> 0, sets |-> <<>>], resp.list, "prover_speed", l1)
        total  == parseFloat(resp.total)
        sets   == Append(looped.sets, Sample("total_speed", l2, total.val))
        pushed == {Sample("prover_speed", l1, looped.v), Sample("total_speed", l2, total.val)}
    IN  IF resp.err # "none" THEN P1Result(reg, pg, TRUE, FALSE, FALSE, <<>>)
        ELSE IF ~CanRegister(reg, d1) THEN P1Result(reg, pg, FALSE, TRUE, FALSE, <<>>)
        ELSE IF ~CanRegister(reg1, d2) THEN P1Result(reg1, pg, FALSE, TRUE, FALSE, looped.sets)
        ELSE IF ~total.ok THEN P1Result(reg2, pg, FALSE, FALSE, FALSE, looped.sets)
        ELSE IF ~pushOk THEN P1Result(reg2, pg, TRUE, FALSE, TRUE, sets)
        ELSE P1Result(reg2, Push(pg, "prover_metrics", <<>>, pushed), FALSE, FALSE, TRUE, sets)

P1_fetchProverReward(reg, pg, address, resp, pushOk) ==
    LET l1     == <<Lbl("address", address)>>
        d1     == Desc("total_reward", l1)
        reg1   == reg \cup {d1}
        looped == P1_loop([v |-> 0, sets |-> <<>>], resp.list, "total_reward", l1)
        pushed == {Sample("total_reward", l1, looped.v)}
    IN  IF resp.err # "none" THEN P1Result(reg, pg, TRUE, FALSE, FALSE, <<>>)
        ELSE IF ~CanRegister(reg, d1) THEN P1Result(reg, pg, FALSE, TRUE, FALSE, <<>>)
        ELSE IF ~pushOk THEN P1Result(reg1, pg, TRUE, FALSE, TRUE, looped.sets)
        ELSE P1Result(reg1, Push(pg, "prover_metrics", <<>>, pushed), FALSE, FALSE, TRUE,
                      looped.sets)

RECURSIVE P1_heightLoop(_, _, _)
P1_heightLoop(acc, list, lbls) ==
    IF list = <<>> THEN acc
    ELSE P1_heightLoop([v |-> Head(list).height,
                        sets |-> Append(acc.sets, Sample("prover_height", lbls, Head(list).height))],
                       Tail(list), lbls)

P1_fetchProverLatestHeight(reg, pg, address, resp, pushOk) ==
    LET l1     == <<Lbl("address", address)>>
        d1     == Desc("prover_height", l1)
        reg1   == reg \cup {d1}
        looped == P1_heightLoop([v |-> 0, sets |-> <<>>], resp.list, l1)
        pushed == {Sample("prover_height", l1, looped.v)}
    IN  IF resp.err # "none" THEN P1Result(reg, pg, TRUE, FALSE, FALSE, <<>>)
        ELSE IF ~CanRegister(reg, d1) THEN P1Result(reg, pg, FALSE, TRUE, FALSE, <<>>)
        ELSE IF ~pushOk THEN P1Result(reg1, pg, TRUE, FALSE, TRUE, looped.sets)
        ELSE P1Result(reg1, Push(pg, "prover_metrics", <<>>, pushed), FALSE, FALSE, TRUE,
                      looped.sets)

P1_fetchLatestBlock(reg, pg, resp, pushOk) ==
    LET d1    == Desc("latest_block_height", <<>>)
        d2    == Desc("proof_target", <<>>)
        d3    == Desc("coinbase_reward", <<>>)
        reg1  == reg \cup {d1}
        reg2  == reg1 \cup {d2}
        reg3  == reg2 \cup {d3}
        proof == parseFloat(resp.proof_target)
        coin  == parseFloat(resp.coinbase_reward)
        s1    == <<Sample("latest_block_height", <<>>, resp.height)>>
        s2    == Append(s1, Sample("proof_target", <<>>, proof.val))
        s3    == Append(s2, Sample("coinbase_reward", <<>>, coin.val))
        pushed == {s3[i] : i \in 1..3}
    IN  IF resp.err # "none" THEN P1Result(reg, pg, TRUE, FALSE, FALSE, <<>>)
        ELSE IF ~CanRegister(reg, d1) THEN P1Result(reg, pg, FALSE, TRUE, FALSE, <<>>)
        ELSE IF ~CanRegister(reg1, d2) THEN P1Result(reg1, pg, FALSE, TRUE, FALSE, s1)
        ELSE IF ~proof.ok THEN P1Result(reg2, pg, FALSE, FALSE, FALSE, s1)
        ELSE IF ~CanRegister(reg2, d3) THEN P1Result(reg2, pg, FALSE, TRUE, FALSE, s2)
        ELSE IF ~coin.ok THEN P1Result(reg3, pg, FALSE, FALSE, FALSE, s2)
        ELSE IF ~pushOk THEN P1Result(reg3, pg, TRUE, FALSE, TRUE, s3)
        ELSE P1Result(reg3, Push(pg, "latest_block_metrics", <<>>, pushed), FALSE, FALSE, TRUE, s3)

\* what a call of a P1 fetch function leaves behind
P1_Effect(fn, arg, resp, r, po, kind, addrs) ==
    /\ registry' = r.reg
    /\ pushgateway' = r.pg
    /\ last' = Call(fn, arg, resp, r)
    /\ klog' = Append(klog, Logged(kind, addrs))

P1_Speed ==
    /\ prog = "P1"
    /\ pc = "speed"
    /\ \E dn \in todo :
         LET req == Request("speed", <<addresses[idx]>>, durations[dn])
         IN  \E o \in ListOutcomes(req.addrs, cycles, MaxFaults - faults) :
             \E po \in PushOutcomes(MaxFaults - faults - o.fault) :
               LET r == P1_fetchProverSpeed(registry, pushgateway, addresses[idx], dn, o.resp, po.ok)
               IN  /\ P1_Effect("fetchProverSpeed", <<addresses[idx], dn>>, o.resp, r, po,
                                req.kind, req.addrs)
                   /\ Inject(o.fault + (IF r.pushed THEN po.fault ELSE 0))
                   /\ sent' = [sent EXCEPT ![dn] = @ + 1]
                   /\ todo' = todo \ {dn}
                   /\ pc' = IF r.panic THEN "panic" ELSE IF todo' = {} THEN "reward" ELSE "speed"
    /\ UNCHANGED <<prog, argv, addresses, cycles, done, idx, tickerOn, tickPending,
                   ticksRecv, gauges, sleeps>>

P1_Reward ==
    /\ prog = "P1"
    /\ pc = "reward"
    /\ LET req == Request("reward", <<addresses[idx]>>, 0)
       IN  \E o \in ListOutcomes(req.addrs, cycles, MaxFaults - faults) :
           \E po \in PushOutcomes(MaxFaults - faults - o.fault) :
             LET r == P1_fetchProverReward(registry, pushgateway, addresses[idx], o.resp, po.ok)
             IN  /\ P1_Effect("fetchProverReward", <<addresses[idx]>>, o.resp, r, po,
                              req.kind, req.addrs)
                 /\ Inject(o.fault + (IF r.pushed THEN po.fault ELSE 0))
                 /\ pc' = IF r.panic THEN "panic" ELSE "height"
    /\ UNCHANGED <<prog, argv, addresses, cycles, done, idx, todo, sent, tickerOn,
                   tickPending, ticksRecv, gauges, sleeps>>

\* the last call of the body of the loop over the addresses
P1_Height ==
    /\ prog = "P1"
    /\ pc = "height"
    /\ LET req == Request("height", <<addresses[idx]>>, 0)
       IN  \E o \in HeightOutcomes(req.addrs, cycles, MaxFaults - faults) :
           \E po \in PushOutcomes(MaxFaults - faults - o.fault) :
             LET r == P1_fetchProverLatestHeight(registry, pushgateway, addresses[idx], o.resp, po.ok)
             IN  /\ P1_Effect("fetchProverLatestHeight", <<addresses[idx]>>, o.resp, r, po,
                              req.kind, req.addrs)
                 /\ Inject(o.fault + (IF r.pushed THEN po.fault ELSE 0))
                 /\ IF r.panic
                    THEN pc' = "panic" /\ UNCHANGED <<idx, todo>>
                    ELSE IF idx < Len(addresses)
                    THEN pc' = "speed" /\ idx' = idx + 1 /\ todo' = DOMAIN durations
                    ELSE pc' = "block" /\ UNCHANGED <<idx, todo>>
    /\ UNCHANGED <<prog, argv, addresses, cycles, done, sent, tickerOn,
                   tickPending, ticksRecv, gauges, sleeps>>

\* fetchLatestBlock, the return of fetchDataAndPush and, on the return of
\* the startup call, time.NewTicker
P1_Block ==
    /\ prog = "P1"
    /\ pc = "block"
    /\ \E o \in BlockOutcomes(cycles, MaxFaults - faults) :
       \E po \in PushOutcomes(MaxFaults - faults - o.fault) :
         LET r == P1_fetchLatestBlock(registry, pushgateway, o.resp, po.ok)
         IN  /\ P1_Effect("fetchLatestBlock", <<>>, o.resp, r, po, "block", <<>>)
             /\ Inject(o.fault + (IF r.pushed THEN po.fault ELSE 0))
             /\ IF r.panic
                THEN pc' = "panic" /\ UNCHANGED <<done, tickerOn>>
                ELSE pc' = "wait" /\ done' = done + 1 /\ tickerOn' = TRUE
    /\ UNCHANGED <<prog, argv, addresses, cycles, idx, todo, sent, tickPending,
                   ticksRecv, gauges, sleeps>>

P1_Step == P1_Speed \/ P1_Reward \/ P1_Height \/ P1_Block

\* ------------------------------------------------------------------------
\* Legacy: package prometh (src/prometh/prometh.go) and the loop of
\* src/unnamed/part_002 lines 388-461.  acc carries the Pushgateway, the
\* number of pushes attempted in the step and their log; the f-th attempted
\* push of a step is the one the Pushgateway rejects (0: none).
\* ------------------------------------------------------------------------
Cluster == <<"c", "l", "u", "s", "t", "e", "r">>

PushAttempt(acc, job, grouping, value, f) ==
    LET n == acc.n + 1
    IN  [pg  |-> IF n = f THEN acc.pg ELSE Push(acc.pg, job, grouping, {Sample(job, <<>>, value)}),
         n   |-> n,
         log |-> Append(acc.log, Logged(IF n = f THEN "push failed" ELSE "push", <<job, grouping>>))]

\* log.Printf("parse ... failed")
ParseFailed(acc, str) == [acc EXCEPT !.log = Append(@, Logged("parse failed", str))]

\* SpeedPush without .Grouping("duration", ...)
SpeedPush_NoDuration(acc, addr, dur, speed, f) ==
    LET speedFloat == parseFloat(speed)
    IN  IF ~speedFloat.ok THEN ParseFailed(acc, speed)
        ELSE PushAttempt(acc, "aleo_prover_speed",
                         <<Lbl("module", Cluster), Lbl("addr", addr)>>, speedFloat.val, f)

SpeedPush(acc, addr, dur, speed, f) ==
    LET speedFloat == parseFloat(speed)
    IN  IF ~speedFloat.ok THEN ParseFailed(acc, speed)
        ELSE PushAttempt(acc, "aleo_prover_speed",
                         <<Lbl("module", Cluster), Lbl("addr", addr),
                           Lbl("duration", FormatNum(dur))>>, speedFloat.val, f)

TotalSpeedPush(acc, dur, speed, f) ==
    LET speedFloat == parseFloat(speed)
    IN  IF ~speedFloat.ok THEN ParseFailed(acc, speed)
        ELSE PushAttempt(acc, "aleo_prover_total_speed",
                         <<Lbl("duration", FormatNum(dur))>>, speedFloat.val, f)

RewardPush(acc, addr, reward, f) ==
    LET rewardFloat == parseFloat(reward)
    IN  IF ~rewardFloat.ok THEN ParseFailed(acc, reward)
        ELSE PushAttempt(acc, "aleo_prover_reward",
                         <<Lbl("module", Cluster), Lbl("addr", addr)>>, rewardFloat.val, f)

TotalRewardPush(acc, reward, f) ==
    LET rewardFloat == parseFloat(reward)
    IN  IF ~rewardFloat.ok THEN ParseFailed(acc, reward)
        ELSE PushAttempt(acc, "aleo_prover_total_reward", <<>>, rewardFloat.val, f)

HeightPush(acc, addr, height, f) ==
    PushAttempt(acc, "aleo_prover_latest_height",
                <<Lbl("module", Cluster), Lbl("addr", addr)>>, height, f)

\* BlockPush returning after a push that failed
BlockPush_StopOnFailure(acc, height, proof, reward, f) ==
    LET job         == "aleo_prover_latest_block"
        a1          == PushAttempt(acc, job, <<Lbl("type", "height")>>, height, f)
        proofFloat  == parseFloat(proof)
        a2          == PushAttempt(a1, job, <<Lbl("type", "proof")>>, proofFloat.val, f)
        rewardFloat == parseFloat(reward)
        a3          == PushAttempt(a2, job, <<Lbl("type", "reward")>>, rewardFloat.val, f)
    IN  IF a1.n = f THEN a1
        ELSE IF ~proofFloat.ok THEN ParseFailed(a1, proof)
        ELSE IF a2.n = f THEN a2
        ELSE IF ~rewardFloat.ok THEN ParseFailed(a2, reward)
        ELSE a3

BlockPush(acc, height, proof, reward, f) ==
    LET job         == "aleo_prover_latest_block"
        a1          == PushAttempt(acc, job, <<Lbl("type", "height")>>, height, f)
        proofFloat  == parseFloat(proof)
        a2          == PushAttempt(a1, job, <<Lbl("type", "proof")>>, proofFloat.val, f)
        rewardFloat == parseFloat(reward)
        a3          == PushAttempt(a2, job, <<Lbl("type", "reward")>>, rewardFloat.val, f)
    IN  IF ~proofFloat.ok THEN ParseFailed(a1, proof)
        ELSE IF ~rewardFloat.ok THEN ParseFailed(a2, reward)
        ELSE a3

duration == <<900, 3600, 43200, 86400>>

RECURSIVE readAddressesFromFile(_)
\* one address per line of the file
readAddressesFromFile(lines) ==
    IF lines = <<>> THEN <<>>
    ELSE <<Head(lines)>> \o readAddressesFromFile(Tail(lines))

RECURSIVE L_speedPushes(_, _, _, _)
L_speedPushes(acc, list, d, f) ==
    IF list = <<>> THEN acc
    ELSE L_speedPushes(SpeedPush(acc, Head(list).address, d, Head(list).value, f), Tail(list), d, f)

RECURSIVE L_rewardPushes(_, _, _)
L_rewardPushes(acc, list, f) ==
    IF list = <<>> THEN acc
    ELSE L_rewardPushes(RewardPush(acc, Head(list).address, Head(list).value, f), Tail(list), f)

RECURSIVE L_heightPushes(_, _, _)
L_heightPushes(acc, list, f) ==
    IF list = <<>> THEN acc
    ELSE L_heightPushes(HeightPush(acc, Head(list).address, Head(list).height, f), Tail(list), f)

Acc0 == [pg |-> pushgateway, n |-> 0, log |-> <<>>]

\* the rejected push of a step: none, or one of at most n while the budget lasts
Rejected(n) == IF faults < MaxFaults THEN 0..n ELSE {0}

Slept(after) == [pass |-> cycles, after |-> after]

BeginPass ==
    /\ cycles' = cycles + 1
    /\ idx' = 1
    /\ klog' = <<>>
    /\ cfaults' = 0
    /\ pc' = "speed"

\* main() up to the loop: the address file is read, or cannot be
L_Main ==
    /\ prog = "Legacy"
    /\ pc = "init"
    /\ \E readable \in BOOLEAN :
         IF readable
         THEN addresses' = readAddressesFromFile(argv) /\ BeginPass
         ELSE pc' = "exit" /\ UNCHANGED <<addresses, cycles, idx, klog, cfaults>>
    /\ UNCHANGED <<prog, argv, done, todo, sent, last, tickerOn, tickPending, ticksRecv,
                   gauges, registry, pushgateway, sleeps, faults>>

\* one iteration of the loop over duration
L_Speed ==
    /\ prog = "Legacy"
    /\ pc = "speed"
    /\ LET d   == duration[idx]
           req == Request("speed", addresses, d)
       IN  \E o \in ListOutcomes(req.addrs, cycles, MaxFaults - faults) :
           \E f \in Rejected(IF o.fault = 0 THEN Len(o.resp.list) + 1 ELSE 0) :
             LET acc == TotalSpeedPush(L_speedPushes(Acc0, o.resp.list, d, f), d, o.resp.total, f)
             IN  /\ last' = Call("SpeedSendRequest", d, o.resp, [err |-> o.resp.err # "none", sets |-> <<>>])
                 /\ IF o.resp.err # "none"
                    THEN /\ sleeps' = Append(sleeps, Slept("speed"))
                         /\ klog' = Append(klog, Logged(req.kind, req.addrs))
                         /\ Inject(o.fault)
                         /\ UNCHANGED pushgateway
                    ELSE /\ pushgateway' = acc.pg
                         /\ klog' = Append(klog, Logged(req.kind, req.addrs)) \o acc.log
                         /\ Inject(o.fault + (IF f \in 1..acc.n THEN 1 ELSE 0))
                         /\ UNCHANGED sleeps
    /\ IF idx < Len(duration)
       THEN idx' = idx + 1 /\ pc' = "speed"
       ELSE idx' = idx /\ pc' = "reward"
    /\ UNCHANGED <<prog, argv, addresses, cycles, done, todo, sent, tickerOn, tickPending,
                   ticksRecv, gauges, registry>>

L_Reward ==
    /\ prog = "Legacy"
    /\ pc = "reward"
    /\ LET req == Request("reward", addresses, 0)
       IN  \E o \in ListOutcomes(req.addrs, cycles, MaxFaults - faults) :
           \E f \in Rejected(IF o.fault = 0 THEN Len(o.resp.list) + 1 ELSE 0) :
             LET acc == TotalRewardPush(L_rewardPushes(Acc0, o.resp.list, f), o.resp.total, f)
             IN  /\ last' = Call("RewardSendRequest", <<>>, o.resp, [err |-> o.resp.err # "none", sets |-> <<>>])
                 /\ IF o.resp.err # "none"
                    THEN /\ sleeps' = Append(sleeps, Slept("reward"))
                         /\ klog' = Append(klog, Logged(req.kind, req.addrs))
                         /\ Inject(o.fault)
                         /\ pc' = "sleep"
                         /\ UNCHANGED pushgateway
                    ELSE /\ pushgateway' = acc.pg
                         /\ klog' = Append(klog, Logged(req.kind, req.addrs)) \o acc.log
                         /\ Inject(o.fault + (IF f \in 1..acc.n THEN 1 ELSE 0))
                         /\ pc' = "height"
                         /\ UNCHANGED sleeps
    /\ UNCHANGED <<prog, argv, addresses, cycles, done, idx, todo, sent, tickerOn, tickPending,
                   ticksRecv, gauges, registry>>

\* L_Height without the continue after the sleep of a failed request
L_Height_FallThrough ==
    /\ prog = "Legacy"
    /\ pc = "height"
    /\ LET req == Request("height", addresses, 0)
       IN  \E o \in HeightOutcomes(req.addrs, cycles, MaxFaults - faults) :
           \E f \in Rejected(IF o.fault = 0 THEN Len(o.resp.list) ELSE 0) :
             LET acc == L_heightPushes(Acc0, o.resp.list, f)
             IN  /\ last' = Call("HeightSendRequest", <<>>, o.resp, [err |-> o.resp.err # "none", sets |-> <<>>])
                 /\ IF o.resp.err # "none"
                    THEN /\ sleeps' = Append(sleeps, Slept("height"))
                         /\ klog' = Append(klog, Logged(req.kind, req.addrs))
                         /\ Inject(o.fault)
                         /\ pc' = "block"
                         /\ UNCHANGED pushgateway
                    ELSE /\ pushgateway' = acc.pg
                         /\ klog' = Append(klog, Logged(req.kind, req.addrs)) \o acc.log
                         /\ Inject(o.fault + (IF f \in 1..acc.n THEN 1 ELSE 0))
                         /\ pc' = "block"
                         /\ UNCHANGED sleeps
    /\ UNCHANGED <<prog, argv, addresses, cycles, done, idx, todo, sent, tickerOn, tickPending,
                   ticksRecv, gauges, registry>>

L_Height ==
    /\ prog = "Legacy"
    /\ pc = "height"
    /\ LET req == Request("height", addresses, 0)
       IN  \E o \in HeightOutcomes(req.addrs, cycles, MaxFaults - faults) :
           \E f \in Rejected(IF o.fault = 0 THEN Len(o.resp.list) ELSE 0) :
             LET acc == L_heightPushes(Acc0, o.resp.list, f)
             IN  /\ last' = Call("HeightSendRequest", <<>>, o.resp, [err |-> o.resp.err # "none", sets |-> <<>>])
                 /\ IF o.resp.err # "none"
                    THEN /\ sleeps' = Append(sleeps, Slept("height"))
                         /\ klog' = Append(klog, Logged(req.kind, req.addrs))
                         /\ Inject(o.fault)
                         /\ pc' = "sleep"
                         /\ UNCHANGED pushgateway
                    ELSE /\ pushgateway' = acc.pg
                         /\ klog' = Append(klog, Logged(req.kind, req.addrs)) \o acc.log
                         /\ Inject(o.fault + (IF f \in 1..acc.n THEN 1 ELSE 0))
                         /\ pc' = "block"
                         /\ UNCHANGED sleeps
    /\ UNCHANGED <<prog, argv, addresses, cycles, done, idx, todo, sent, tickerOn, tickPending,
                   ticksRecv, gauges, registry>>

\* the block request, BlockPush and the sleep that ends the pass
L_Block ==
    /\ prog = "Legacy"
    /\ pc = "block"
    /\ \E o \in BlockOutcomes(cycles, MaxFaults - faults) :
       \E f \in Rejected(IF o.fault = 0 THEN 3 ELSE 0) :
         LET acc == BlockPush(Acc0, o.resp.height, o.resp.proof_target, o.resp.coinbase_reward, f)
         IN  /\ last' = Call("BlockSendRequest", <<>>, o.resp, [err |-> o.resp.err # "none", sets |-> <<>>])
             /\ IF o.resp.err # "none"
                THEN /\ sleeps' = Append(sleeps, Slept("block"))
                     /\ klog' = Append(klog, Logged("block", <<>>))
                     /\ Inject(o.fault)
                     /\ UNCHANGED <<pushgateway, done>>
                ELSE /\ pushgateway' = acc.pg
                     /\ klog' = Append(klog, Logged("block", <<>>)) \o acc.log
                     /\ Inject(o.fault + (IF f \in 1..acc.n THEN 1 ELSE 0))
                     /\ sleeps' = Append(sleeps, Slept("end"))
                     /\ done' = done + 1
    /\ pc' = "sleep"
    /\ UNCHANGED <<prog, argv, addresses, cycles, idx, todo, sent, tickerOn, tickPending,
                   ticksRecv, gauges, registry>>

\* time.Sleep returns and the for loop starts its next pass
L_Wake ==
    /\ prog = "Legacy"
    /\ pc = "sleep"
    /\ cycles < MaxCycles
    /\ BeginPass
    /\ UNCHANGED <<prog, argv, addresses, done, todo, sent, last, tickerOn, tickPending,
                   ticksRecv, gauges, registry, pushgateway, sleeps, faults>>

L_Step == L_Main \/ L_Speed \/ L_Reward \/ L_Height \/ L_Block \/ L_Wake

\* ------------------------------------------------------------------------
\* P3: src/unnamed/part_001.  The fetch functions have no result: where
\* those of P2 return an error, these end the process with log.Fatalf (err).
\* ------------------------------------------------------------------------
RECURSIVE P3_speedLoop(_, _, _)
\* part_001 lines 148-155
P3_speedLoop(acc, list, dn) ==
    IF list = <<>> THEN acc
    ELSE LET item  == Head(list)
             speed == parseFloat(item.value)
             lbls  == <<Lbl("address", item.address), Lbl("duration", dn)>>
         IN  IF ~speed.ok
             THEN P3_speedLoop(acc, Tail(list), dn)
             ELSE P3_speedLoop(Result(GaugeSet(acc.g, "prover_speed", lbls, speed.val), FALSE,
                                      Append(acc.sets, Sample("prover_speed", lbls, speed.val))),
                               Tail(list), dn)

\* P3_fetchProverSpeed parsing the total before the list and returning at
\* its parse failure
P3_fetchProverSpeed_TotalFirst(g, resp, dn) ==
    IF resp.err # "none" THEN Result(g, TRUE, <<>>)
    ELSE LET total  == parseFloat(resp.total)
             lbls   == <<Lbl("duration", dn)>>
             first  == Result(GaugeSet(g, "total_speed", lbls, total.val), FALSE,
                              <<Sample("total_speed", lbls, total.val)>>)
         IN  IF ~total.ok THEN Result(g, FALSE, <<>>)
             ELSE P3_speedLoop(first, resp.list, dn)

\* part_001 lines 129-163; err: fetchData or json.Unmarshal called log.Fatalf
P3_fetchProverSpeed(g, resp, dn) ==
    IF resp.err # "none" THEN Result(g, TRUE, <<>>)
    ELSE LET looped == P3_speedLoop(Result(g, FALSE, <<>>), resp.list, dn)
             total  == parseFloat(resp.total)
             lbls   == <<Lbl("duration", dn)>>
         IN  IF ~total.ok THEN looped
             ELSE Result(GaugeSet(looped.g, "total_speed", lbls, total.val), FALSE,
                         Append(looped.sets, Sample("total_speed", lbls, total.val)))

RECURSIVE P3_rewardLoop(_, _)
\* part_001 lines 184-191
P3_rewardLoop(acc, list) ==
    IF list = <<>> THEN acc
    ELSE LET item   == Head(list)
             reward == parseFloat(item.value)
             lbls   == <<Lbl("address", item.address)>>
         IN  IF ~reward.ok
             THEN P3_rewardLoop(acc, Tail(list))
             ELSE P3_rewardLoop(Result(GaugeSet(acc.g, "total_reward", lbls, reward.val), FALSE,
                                       Append(acc.sets, Sample("total_reward", lbls, reward.val))),
                                Tail(list))

\* part_001 lines 165-192
P3_fetchProverReward(g, resp) ==
    IF resp.err # "none" THEN Result(g, TRUE, <<>>)
    ELSE P3_rewardLoop(Result(g, FALSE, <<>>), resp.list)

RECURSIVE P3_heightLoop(_, _)
\* part_001 lines 210-212
P3_heightLoop(acc, list) ==
    IF list = <<>> THEN acc
    ELSE LET item == Head(list)
             lbls == <<Lbl("address", item.address)>>
         IN  P3_heightLoop(Result(GaugeSet(acc.g, "prover_height", lbls, item.height), FALSE,
                                  Append(acc.sets, Sample("prover_height", lbls, item.height))),
                           Tail(list))

\* part_001 lines 194-213
P3_fetchProverLatestHeight(g, resp) ==
    IF resp.err # "none" THEN Result(g, TRUE, <<>>)
    ELSE P3_heightLoop(Result(g, FALSE, <<>>), resp.list)

\* part_001 lines 215-246
P3_fetchLatestBlock(g, resp) ==
    IF resp.err # "none" THEN Result(g, TRUE, <<>>)
    ELSE LET g1    == GaugeSet(g, "latest_block_height", <<>>, resp.height)
             s1    == <<Sample("latest_block_height", <<>>, resp.height)>>
             proof == parseFloat(resp.proof_target)
             g2    == GaugeSet(g1, "proof_target", <<>>, proof.val)
             s2    == Append(s1, Sample("proof_target", <<>>, proof.val))
             coin  == parseFloat(resp.coinbase_reward)
         IN  IF ~proof.ok THEN Result(g1, FALSE, s1)
             ELSE IF ~coin.ok THEN Result(g2, FALSE, s2)
             ELSE Result(GaugeSet(g2, "coinbase_reward", <<>>, coin.val), FALSE,
                         Append(s2, Sample("coinbase_reward", <<>>, coin.val)))

\* main() of P3: the flags are parsed and the ticker is created; there is no
\* check of the address list and no cycle before the first tick
P3_Main ==
    /\ prog = "P3"
    /\ pc = "init"
    /\ addresses' = StringArrayVar(argv)
    /\ tickerOn' = TRUE
    /\ pc' = "wait"
    /\ UNCHANGED <<prog, argv, cycles, done, idx, todo, sent, klog, last, tickPending,
                   ticksRecv, gauges, registry, pushgateway, sleeps, faults, cfaults>>

P3_Speed ==
    /\ prog = "P3"
    /\ pc = "speed"
    /\ \E dn \in todo :
         LET req == Request("speed", addresses, durations[dn])
         IN  \E o \in ListOutcomes(req.addrs, cycles, MaxFaults - faults) :
               LET r == P3_fetchProverSpeed(gauges, o.resp, dn)
               IN  /\ gauges' = r.g
                   /\ last' = Call("fetchProverSpeed", dn, o.resp, r)
                   /\ Inject(o.fault)
                   /\ klog' = Append(klog, Logged(req.kind, req.addrs))
                   /\ sent' = [sent EXCEPT ![dn] = @ + 1]
                   /\ todo' = todo \ {dn}
                   /\ pc' = IF r.err THEN "fatal" ELSE IF todo' = {} THEN "reward" ELSE "speed"
    /\ UNCHANGED <<prog, argv, addresses, cycles, done, idx, tickerOn, tickPending,
                   ticksRecv, registry, pushgateway, sleeps>>

P3_Reward ==
    /\ prog = "P3"
    /\ pc = "reward"
    /\ LET req == Request("reward", addresses, 0)
       IN  \E o \in ListOutcomes(req.addrs, cycles, MaxFaults - faults) :
             LET r == P3_fetchProverReward(gauges, o.resp)
             IN  /\ gauges' = r.g
                 /\ last' = Call("fetchProverReward", <<>>, o.resp, r)
                 /\ Inject(o.fault)
                 /\ klog' = Append(klog, Logged(req.kind, req.addrs))
                 /\ pc' = IF r.err THEN "fatal" ELSE "height"
    /\ UNCHANGED <<prog, argv, addresses, cycles, done, idx, todo, sent, tickerOn,
                   tickPending, ticksRecv, registry, pushgateway, sleeps>>

P3_Height ==
    /\ prog = "P3"
    /\ pc = "height"
    /\ LET req == Request("height", addresses, 0)
       IN  \E o \in HeightOutcomes(req.addrs, cycles, MaxFaults - faults) :
             LET r == P3_fetchProverLatestHeight(gauges, o.resp)
             IN  /\ gauges' = r.g
                 /\ last' = Call("fetchProverLatestHeight", <<>>, o.resp, r)
                 /\ Inject(o.fault)
                 /\ klog' = Append(klog, Logged(req.kind, req.addrs))
                 /\ pc' = IF r.err THEN "fatal" ELSE "block"
    /\ UNCHANGED <<prog, argv, addresses, cycles, done, idx, todo, sent, tickerOn,
                   tickPending, ticksRecv, registry, pushgateway, sleeps>>

P3_Block ==
    /\ prog = "P3"
    /\ pc = "block"
    /\ \E o \in BlockOutcomes(cycles, MaxFaults - faults) :
         LET r == P3_fetchLatestBlock(gauges, o.resp)
         IN  /\ gauges' = r.g
             /\ last' = Call("fetchLatestBlock", <<>>, o.resp, r)
             /\ Inject(o.fault)
             /\ klog' = Append(klog, Logged("block", <<>>))
             /\ pc' = IF r.err THEN "fatal" ELSE "push"
    /\ UNCHANGED <<prog, argv, addresses, cycles, done, idx, todo, sent, tickerOn,
                   tickPending, ticksRecv, registry, pushgateway, sleeps>>

\* the push of the seven collectors; a rejected push is fatal
P3_Push ==
    /\ prog = "P3"
    /\ pc = "push"
    /\ \E o \in PushOutcomes(MaxFaults - faults) :
         /\ pushgateway' = IF o.ok THEN Push(pushgateway, "prover_metrics", <<>>, gauges)
                           ELSE pushgateway
         /\ Inject(o.fault)
         /\ pc' = IF o.ok THEN "wait" ELSE "fatal"
         /\ done' = IF o.ok THEN done + 1 ELSE done
    /\ klog' = Append(klog, Logged("push", <<>>))
    /\ UNCHANGED <<prog, argv, addresses, cycles, idx, todo, sent, last, tickerOn, tickPending,
                   ticksRecv, gauges, registry, sleeps>>

P3_Step == P3_Main \/ P3_Speed \/ P3_Reward \/ P3_Height \/ P3_Block \/ P3_Push

\* ------------------------------------------------------------------------
\* A server that accepts the connection and never answers: fetchData builds
\* its client as &http.Client{}, which has no Timeout, so client.Do does
\* not return and the main goroutine stays in the request.
\* ------------------------------------------------------------------------
NoAnswer ==
    /\ prog \in {"P1", "P2"}
    /\ pc \in {"speed", "reward", "height", "block"}
    /\ faults < MaxFaults
    /\ Inject(1)
    /\ klog' = Append(klog, Logged(pc, <<>>))
    /\ pc' = "blocked"
    /\ UNCHANGED <<prog, argv, addresses, cycles, done, idx, todo, sent, last, tickerOn,
                   tickPending, ticksRecv, gauges, registry, pushgateway, sleeps>>

P2_Step == P2_Speed \/ P2_Reward \/ P2_Height \/ P2_Block \/ P2_Push

Next == Main \/ Tick \/ Receive \/ P1_Step \/ P2_Step \/ L_Step

\* the runs of the three revisions P1, P2 and Legacy in which every request
\* returns
Spec == Init /\ [][Next]_vars

\* one revision at a time
InitP1 == Init /\ prog = "P1"
NextP1 == Main \/ Tick \/ Receive \/ P1_Step
SpecP1 == InitP1 /\ [][NextP1]_vars

InitP2 == Init /\ prog = "P2"
NextP2 == Main \/ Tick \/ Receive \/ P2_Step
SpecP2 == InitP2 /\ [][NextP2]_vars

InitLegacy == Init /\ prog = "Legacy"
NextLegacy == L_Step
SpecLegacy == InitLegacy /\ [][NextLegacy]_vars

InitP3 == Start({"P3"})
NextP3 == Tick \/ Receive \/ P3_Step
SpecP3 == InitP3 /\ [][NextP3]_vars

\* every revision, started with at most one --addresses flag (one line of
\* the address file)
Revisions == Programs \cup {"P3"}
InitAll == Start(Revisions) /\ Len(argv) <= 1
NextAll == Next \/ P3_Step
SpecAll == InitAll /\ [][NextAll]_vars

\* the runs of P2 and of P3, the two revisions with package-level
\* collectors, with at most one --addresses flag
InitP2P3 == Start({"P2", "P3"}) /\ Len(argv) <= 1

NextP2P3 == Main \/ Tick \/ Receive \/ P2_Step \/ P3_Step

SpecP2P3 == InitP2P3 /\ [][NextP2P3]_vars

\* the programs of src/main.go with a server that may never answer
InitNoAnswer == Start({"P1", "P2"})
NextNoAnswer == Main \/ Tick \/ Receive \/ P1_Step \/ P2_Step \/ NoAnswer
SpecNoAnswer == InitNoAnswer /\ [][NextNoAnswer]_vars

\* ------------------------------------------------------------------------
\* Properties
\* ------------------------------------------------------------------------
Kinds(log) == [i \in 1..Len(log) |-> log[i].kind]

IsPrefix(a, b) == Len(a) <= Len(b) /\ a = SubSeq(b, 1, Len(a))

\* C1: in P2, started with at least one address, no anomaly (API error,
\* malformed response, unparsable value, rejected push) ends the process:
\* the process is always inside a cycle or waiting for a tick, a cycle was
\* begun at startup and for every tick received, every cycle begun before
\* the current one has ended, after a fetch that returned an error the cycle
\* can take its next step, and after a cycle (also one whose push was
\* rejected) the main loop can be given, or can take, the next tick.
C1_CycleForEveryTick ==
    (prog = "P2" /\ pc # "init" /\ Len(addresses) > 0) =>
        /\ pc \in {"speed", "reward", "height", "block", "push", "wait"}
        /\ cycles = ticksRecv + 1
        /\ pc # "wait" => done = cycles - 1
        /\ (pc # "wait" /\ last.err) => ENABLED P2_Step
        /\ pc = "wait" => done = cycles
        /\ (pc = "wait" /\ cycles < MaxCycles) => ENABLED (Tick \/ Receive)

\* a cycle has started on a tick after a cycle in which an anomaly occurred
C1_Witness ==
    /\ prog = "P2"
    /\ cycles = 2
    /\ ticksRecv = 1
    /\ klog = <<>>
    /\ faults >= 1

P2_CycleOrder == <<"speed", "speed", "speed", "speed", "reward", "height", "block", "push">>

P2_PcAt == <<"speed", "speed", "speed", "speed", "reward", "height", "block", "push", "wait">>

\* C2: in P2 the requests and the push of a cycle come in the order four
\* speed requests (one per duration), reward, height, block, push; the
\* speed, reward and height requests carry the whole address list; the
\* next step is taken whatever the earlier ones returned, so a cycle that
\* has ended has made all eight.
C2_CycleOrder ==
    (prog = "P2" /\ cycles >= 1) =>
        /\ IsPrefix(Kinds(klog), P2_CycleOrder)
        /\ pc = P2_PcAt[Len(klog) + 1]
        /\ \A dn \in DOMAIN durations : sent[dn] <= 1
        /\ Len(klog) >= 4 => \A dn \in DOMAIN durations : sent[dn] = 1
        /\ Len(klog) < 4 => Len(klog) = Cardinality({dn \in DOMAIN durations : sent[dn] = 1})
        /\ \A i \in 1..Len(klog) :
             klog[i].kind \in {"speed", "reward", "height"} => klog[i].addrs = addresses

\* a cycle over two addresses has ended with its push although its block
\* request failed
C2_Witness ==
    /\ prog = "P2"
    /\ pc = "wait"
    /\ Len(addresses) = 2
    /\ last.fn = "fetchLatestBlock"
    /\ last.err
    /\ Kinds(klog) = P2_CycleOrder

Range(f) == {f[i] : i \in DOMAIN f}

AllHeld == {e.sample : e \in pushgateway}

\* C3: in P1 with one address, after the first cycle in which every request
\* succeeds and every value parses, the Pushgateway holds at once the
\* address's prover_speed and the total_speed of each of the four durations,
\* its total_reward and prover_height, and latest_block_height,
\* proof_target and coinbase_reward.
C3_AllHeldAfterCycle ==
    (prog = "P1" /\ Len(addresses) = 1 /\ pc = "wait" /\ done = 1 /\ faults = 0) =>
        LET a == addresses[1]
            Has(name, lbls) == \E s \in AllHeld : s.name = name /\ s.labels = lbls
        IN  /\ \A dn \in DOMAIN durations :
                 /\ Has("prover_speed", <<Lbl("address", a), Lbl("duration", dn)>>)
                 /\ Has("total_speed", <<Lbl("duration", dn)>>)
            /\ Has("total_reward", <<Lbl("address", a)>>)
            /\ Has("prover_height", <<Lbl("address", a)>>)
            /\ Has("latest_block_height", <<>>)
            /\ Has("proof_target", <<>>)
            /\ Has("coinbase_reward", <<>>)

\* C4: when an item of a speed or reward list does not parse, only that
\* item is skipped: every item of the list that parses has its gauge set
\* to the parsed value (P2) or is pushed (Legacy), the fetch function
\* returns no error and the cycle goes on with its next step.
C4_OnlyUnparsableSkipped ==
    /\ (prog = "P2" /\ last.fn \in {"fetchProverSpeed", "fetchProverReward"}
                    /\ last.resp.err = "none") =>
          /\ ~last.err
          /\ pc \in {"speed", "reward", "height", "block", "push", "wait"}
          /\ \A i \in 1..Len(last.resp.list) :
               LET item == last.resp.list[i]
                   x    == parseFloat(item.value)
                   smp  == IF last.fn = "fetchProverSpeed"
                           THEN Sample("prover_speed",
                                       <<Lbl("address", item.address), Lbl("duration", last.arg)>>, x.val)
                           ELSE Sample("total_reward", <<Lbl("address", item.address)>>, x.val)
               IN  x.ok => smp \in Range(last.sets) /\ smp \in gauges
    /\ (prog = "Legacy" /\ last.fn \in {"SpeedSendRequest", "RewardSendRequest"}
                        /\ last.resp.err = "none") =>
          /\ pc \in {"speed", "reward", "height"}
          /\ \A i \in 1..Len(last.resp.list) :
               LET item == last.resp.list[i]
                   x    == parseFloat(item.value)
                   to   == IF last.fn = "SpeedSendRequest"
                           THEN <<"aleo_prover_speed",
                                  <<Lbl("module", Cluster), Lbl("addr", item.address),
                                    Lbl("duration", FormatNum(last.arg))>>>>
                           ELSE <<"aleo_prover_reward",
                                  <<Lbl("module", Cluster), Lbl("addr", item.address)>>>>
               IN  x.ok => \E j \in 1..Len(klog) :
                             klog[j].kind \in {"push", "push failed"} /\ klog[j].addrs = to

\* a P2 speed response in which an unparsable item precedes a parsable one
C4_Witness ==
    /\ prog = "P2"
    /\ last.fn = "fetchProverSpeed"
    /\ last.resp.err = "none"
    /\ Len(last.resp.list) >= 2
    /\ ~parseFloat(last.resp.list[1].value).ok
    /\ parseFloat(last.resp.list[2].value).ok

\* C5: in P1 and P2 the first cycle is run at startup, before the ticker
\* exists; every later cycle is started by a tick, the k-th cycle after
\* the (k-1)-th tick.
C5_StartupThenTicks ==
    prog \in {"P1", "P2"} =>
        /\ pc \notin {"init", "fatal"} => cycles >= 1
        /\ ~tickerOn => cycles <= 1 /\ ticksRecv = 0 /\ ~tickPending
        /\ tickerOn => done >= 1
        /\ cycles >= 1 => ticksRecv = cycles - 1

\* the second cycle of P1 has started, on the first tick
C5_Witness ==
    /\ prog = "P1"
    /\ cycles = 2
    /\ ticksRecv = 1
    /\ pc = "speed"

\* C6: in P1 and P2, without an address the program ends in log.Fatal
\* before any request or push; no cycle starts with an empty address list.
C6_NoAddressesIsFatal ==
    prog \in {"P1", "P2"} =>
        /\ (Len(argv) = 0 /\ pc # "init") => pc = "fatal"
        /\ Len(argv) = 0 => cycles = 0 /\ klog = <<>> /\ pushgateway = {} /\ last = NoCall
        /\ cycles >= 1 => Len(addresses) >= 1

\* P2 has ended in log.Fatal("No addresses provided")
C6_Witness ==
    /\ prog = "P2"
    /\ pc = "fatal"
    /\ addresses = <<>>
    /\ argv = <<>>

\* C7: started with one --addresses flag whose value is a comma-separated
\* list of N addresses, the program monitors N addresses, each on its own.
C7_MakefileListIsSplit ==
    (prog \in {"P1", "P2"} /\ pc # "init" /\ Len(argv) = 1) =>
        addresses = SplitComma(argv[1], <<>>)

\* C8: in Legacy, after a pass in which every request and push succeeds
\* and every value parses, the Pushgateway holds at once a speed for every
\* (address, duration), a total speed for every duration, a reward and a
\* height for every address, the total reward and the three fields of the
\* latest block, each with the value of this pass.
C8_CleanPassHeld ==
    (prog = "Legacy" /\ pc = "sleep" /\ cfaults = 0) =>
        LET k == cycles
            Holds(job, lbls, v) ==
                \E e \in pushgateway :
                    /\ e.job = job
                    /\ lbls \subseteq Range(e.grouping)
                    /\ e.sample.value = v
        IN  /\ \A i \in 1..Len(addresses) :
                 /\ \A j \in 1..Len(duration) :
                      Holds("aleo_prover_speed",
                            {Lbl("addr", addresses[i]), Lbl("duration", FormatNum(duration[j]))},
                            TrueValue(addresses[i], k))
                 /\ Holds("aleo_prover_reward", {Lbl("addr", addresses[i])},
                          TrueValue(addresses[i], k))
                 /\ Holds("aleo_prover_latest_height", {Lbl("addr", addresses[i])},
                          TrueValue(addresses[i], k))
            /\ \A j \in 1..Len(duration) :
                 Holds("aleo_prover_total_speed", {Lbl("duration", FormatNum(duration[j]))},
                       TrueTotal(k))
            /\ Holds("aleo_prover_total_reward", {}, TrueTotal(k))
            /\ Holds("aleo_prover_latest_block", {Lbl("type", "height")}, TrueHeight(k))
            /\ Holds("aleo_prover_latest_block", {Lbl("type", "proof")}, TrueProof(k))
            /\ Holds("aleo_prover_latest_block", {Lbl("type", "reward")}, TrueCoinbase(k))

\* the second pass over two different addresses has ended without anomaly
C8_Witness ==
    /\ prog = "Legacy"
    /\ pc = "sleep"
    /\ cfaults = 0
    /\ cycles = 2
    /\ done = 2
    /\ Len(addresses) = 2
    /\ addresses[1] # addresses[2]

\* C9: an unparsable string does not keep another field of the same
\* response from being published: with an unparsable total speed the
\* per-address speeds are published; with an unparsable proof target the
\* block height and a parsable coinbase reward are; with an unparsable
\* coinbase reward the block height and the proof target are.
C9_ParseFailureIsolated ==
    /\ (prog = "P2" /\ last.fn = "fetchLatestBlock" /\ last.resp.err = "none") =>
          LET proof == parseFloat(last.resp.proof_target)
              coin  == parseFloat(last.resp.coinbase_reward)
          IN  /\ Sample("latest_block_height", <<>>, last.resp.height) \in gauges
              /\ proof.ok => Sample("proof_target", <<>>, proof.val) \in gauges
              /\ coin.ok => Sample("coinbase_reward", <<>>, coin.val) \in gauges
    /\ (prog = "P2" /\ last.fn = "fetchProverSpeed" /\ last.resp.err = "none") =>
          \A i \in 1..Len(last.resp.list) :
              LET item == last.resp.list[i]
                  x    == parseFloat(item.value)
              IN  x.ok => Sample("prover_speed",
                                 <<Lbl("address", item.address), Lbl("duration", last.arg)>>,
                                 x.val) \in gauges
    /\ (prog = "P1" /\ last.fn = "fetchProverSpeed" /\ last.resp.err = "none"
                    /\ pc # "panic" /\ cfaults = 1
                    /\ ~parseFloat(last.resp.total).ok) =>
          \A i \in 1..Len(last.resp.list) :
              \E s \in Held(pushgateway, "prover_metrics", <<>>) :
                  /\ s.name = "prover_speed"
                  /\ s.labels = <<Lbl("address", last.arg[1]), Lbl("duration", last.arg[2])>>
    /\ (prog = "P1" /\ last.fn = "fetchLatestBlock" /\ last.resp.err = "none"
                    /\ pc = "wait" /\ cfaults = 1
                    /\ ~(parseFloat(last.resp.proof_target).ok
                          /\ parseFloat(last.resp.coinbase_reward).ok)) =>
          Sample("latest_block_height", <<>>, last.resp.height)
              \in Held(pushgateway, "latest_block_metrics", <<>>)
    /\ (prog = "Legacy" /\ last.fn = "BlockSendRequest" /\ last.resp.err = "none"
                        /\ cfaults = 1
                        /\ ~parseFloat(last.resp.proof_target).ok) =>
          /\ Held(pushgateway, "aleo_prover_latest_block", <<Lbl("type", "height")>>)
                = {Sample("aleo_prover_latest_block", <<>>, last.resp.height)}
          /\ Held(pushgateway, "aleo_prover_latest_block", <<Lbl("type", "reward")>>)
                = {Sample("aleo_prover_latest_block", <<>>,
                          parseFloat(last.resp.coinbase_reward).val)}

\* C10: in P1 no fetch function registers a gauge whose name and constant
\* label values equal those of a registered one: MustRegister never panics.
C10_NeverPanics ==
    prog = "P1" => pc # "panic"

\* the numbers the API has reported up to the current cycle, in any field
\* of any response
ApiNumbers ==
    UNION {{TrueTotal(k), TrueHeight(k), TrueProof(k), TrueCoinbase(k)}
             \cup {TrueValue(a, k) : a \in Range(addresses) \cup {Foreign}} : k \in 1..cycles}

\* C11: every value the Pushgateway holds is a number that an API response
\* contained; in particular the initial 0 of a gauge is never pushed.
C11_PushedValuesFromApi ==
    \A e \in pushgateway : e.sample.value \in ApiNumbers

\* the collectors of P2 after one cycle that starts from the collectors of a
\* new process and receives the truthful responses of epoch k
CycleAlone(addrs, k) ==
    LET list   == ListResponse(TrueList(addrs, k), FormatNum(TrueTotal(k)))
        g1     == P2_fetchProverSpeed(P2_init, list, "15m").g
        g2     == P2_fetchProverSpeed(g1, list, "1h").g
        g3     == P2_fetchProverSpeed(g2, list, "12h").g
        g4     == P2_fetchProverSpeed(g3, list, "24h").g
        g5     == P2_fetchProverReward(g4, list).g
        g6     == P2_fetchProverLatestHeight(g5, ListResponse(TrueList(addrs, k), <<>>)).g
    IN  P2_fetchLatestBlock(g6, BlockResponse(TrueHeight(k), FormatNum(TrueProof(k)),
                                              FormatNum(TrueCoinbase(k)))).g

\* C12: P2 keeps no state from one cycle to the next: the series and values
\* pushed at the end of a cycle depend on the responses of that cycle only.
\* Stated for the cycles that receive the truthful responses and whose push
\* is accepted: what the Pushgateway then holds is what the same responses
\* give in a process that has run no earlier cycle.
C12_CycleDeterminesPush ==
    (prog = "P2" /\ pc = "wait" /\ cfaults = 0) =>
        Held(pushgateway, "prover_metrics", <<>>) = CycleAlone(addresses, cycles)

\* C13: in P2 a fetch function that returns an error has changed no gauge
\* and the cycle goes on to its push; an accepted push carries the
\* collectors as the fetch functions left them, so that after a failed
\* latest_block fetch that follows only regular cycles the three block
\* metrics still have the values of the previous cycle, in the collectors
\* and, after the push, in the Pushgateway.
C13_FailedFetchKeepsGauges ==
    /\ [][(prog = "P2" /\ pc \in {"speed", "reward", "height", "block"} /\ last'.err)
             => (gauges' = gauges /\ pc' \in {"speed", "reward", "height", "block", "push"})]_vars
    /\ [][(prog = "P2" /\ pc = "push" /\ pushgateway' # pushgateway)
             => (pc' = "wait" /\ Held(pushgateway', "prover_metrics", <<>>) = gauges)]_vars
    /\ []((prog = "P2" /\ last.fn = "fetchLatestBlock" /\ last.err
                       /\ cfaults = faults /\ cycles >= 2) =>
            LET left == {Sample("latest_block_height", <<>>, TrueHeight(cycles - 1)),
                         Sample("proof_target", <<>>, TrueProof(cycles - 1)),
                         Sample("coinbase_reward", <<>>, TrueCoinbase(cycles - 1))}
            IN  /\ left \subseteq gauges
                /\ pc = "wait" => left \subseteq Held(pushgateway, "prover_metrics", <<>>))

\* the second cycle has ended after a failed latest_block fetch and the
\* Pushgateway holds the block height of the first cycle
C13_Witness ==
    /\ prog = "P2"
    /\ pc = "wait"
    /\ cycles = 2
    /\ last.fn = "fetchLatestBlock"
    /\ last.err
    /\ cfaults = 1
    /\ Sample("latest_block_height", <<>>, TrueHeight(1)) \in Held(pushgateway, "prover_metrics", <<>>)

\* C14: fetch cycles never overlap.  In every revision a cycle (pass) is
\* begun only by the main goroutine standing outside a cycle (at startup,
\* waiting on the ticker, or asleep), one at a time; with a ticker, a tick
\* is taken from ticker.C only when every cycle begun has ended, while a
\* cycle runs at most one tick is pending (a further tick is dropped), and
\* the collectors are written by steps of the cycle in progress only.
C14_NoOverlap ==
    /\ [][cycles' # cycles
             => (pc \in {"init", "wait", "sleep"} /\ cycles' = cycles + 1)]_vars
    /\ [][ticksRecv' # ticksRecv
             => (pc = "wait" /\ done = cycles /\ tickPending /\ ~tickPending'
                 /\ ticksRecv' = ticksRecv + 1 /\ cycles' = cycles + 1)]_vars
    /\ [][gauges' # gauges
             => (pc \in {"speed", "reward", "height", "block"} /\ cycles' = cycles
                 /\ done = cycles - 1)]_vars
    /\ [](prog # "Legacy" => cycles - done \in {0, 1})
    /\ [](tickPending => ~ENABLED Tick)

\* a tick is pending while the second cycle is still making its requests
C14_Witness ==
    /\ prog \in {"P1", "P2", "P3"}
    /\ tickPending
    /\ cycles = 2
    /\ done = 1
    /\ pc \in {"reward", "height", "block"}

\* C15: in P1 a value published under address=A by a fetch function is a
\* value the response reported in an item whose address is A: after a call
\* that set its per-address gauge from the list and pushed it, the sample
\* the Pushgateway holds for the call's address has the value of an item
\* of the response with that address.
C15_ValueOfOwnItem ==
    (prog = "P1" /\ last.fn \in {"fetchProverSpeed", "fetchProverReward", "fetchProverLatestHeight"}
                 /\ last.resp.err = "none" /\ ~last.err /\ pc # "panic") =>
        \A s \in Held(pushgateway, "prover_metrics", <<>>) :
            (s.name \in {"prover_speed", "total_reward", "prover_height"}
               /\ s.labels[1] = Lbl("address", last.arg[1])
               /\ \E x \in Range(last.sets) : x.name = s.name) =>
                \E i \in 1..Len(last.resp.list) :
                    LET item == last.resp.list[i]
                    IN  /\ item.address = last.arg[1]
                        /\ IF s.name = "prover_height" THEN s.value = item.height
                           ELSE parseFloat(item.value) = [ok |-> TRUE, val |-> s.value]

\* C16: in P1 and P2 every cycle that has started finishes: as long as a
\* cycle is in progress its next step can be taken, because the request in
\* flight returns, with a response or an error, also when the server never
\* answers.  (The panic of P1 is not a request that fails to return.)
C16_CycleFinishes ==
    (prog \in {"P1", "P2"} /\ cycles > done /\ pc # "panic") =>
        ENABLED (P1_Step \/ P2_Step)

\* C17: in P3 a failed request, a response that is not valid JSON or a
\* rejected push does not stop the program: the process is always waiting
\* for a tick or inside a cycle, every cycle begun before the current one
\* has ended, and after a cycle the next tick can be given or taken.
C17_StaysPeriodic ==
    (prog = "P3" /\ pc # "init") =>
        /\ pc \in {"speed", "reward", "height", "block", "push", "wait"}
        /\ cycles = ticksRecv
        /\ pc # "wait" => done = cycles - 1
        /\ pc = "wait" => done = cycles
        /\ (pc = "wait" /\ cycles < MaxCycles) => ENABLED (Tick \/ Receive)

\* C18: in Legacy exactly one sleep separates the end of a pass from the
\* start of the next and no sleep is made between two requests of the
\* same pass: every pass begun earlier has slept once, the pass in
\* progress has not slept yet, and no sleep follows a speed request.
C18_OneSleepPerPass ==
    (prog = "Legacy" /\ pc \notin {"init", "exit"}) =>
        /\ \A i \in 1..Len(sleeps) : sleeps[i].after # "speed"
        /\ \A k \in 1..cycles :
             Cardinality({i \in 1..Len(sleeps) : sleeps[i].pass = k})
                 = (IF k < cycles \/ pc = "sleep" THEN 1 ELSE 0)

LegacyRequests == <<"speed", "speed", "speed", "speed", "reward", "height", "block">>

\* the requests of the pass, in order, without the pushes made between them
RECURSIVE RequestsOf(_)
RequestsOf(log) ==
    IF log = <<>> THEN <<>>
    ELSE IF Head(log).kind \in {"speed", "reward", "height", "block"}
         THEN <<Head(log).kind>> \o RequestsOf(Tail(log))
         ELSE RequestsOf(Tail(log))

\* C19: in Legacy a failed reward, height or block request ends the pass:
\* the step that fails pushes nothing, logs nothing after the request and
\* sleeps once; the pass makes its requests in the order speed (four),
\* reward, height, block, so that after the failure none of the later
\* endpoints is queried; when the sleep is over the next pass starts with
\* the speed requests.
C19_FailureEndsPass ==
    /\ [][(prog = "Legacy" /\ pc \in {"reward", "height", "block"} /\ last'.err)
             => /\ pc' = "sleep"
                /\ pushgateway' = pushgateway
                /\ klog' = Append(klog, Logged(pc, IF pc = "block" THEN <<>> ELSE addresses))
                /\ sleeps' = Append(sleeps, Slept(pc))
                /\ done' = done]_vars
    /\ [][(prog = "Legacy" /\ pc = "sleep")
             => (pc' = "speed" /\ idx' = 1 /\ klog' = <<>> /\ cycles' = cycles + 1
                 /\ sleeps' = sleeps /\ pushgateway' = pushgateway)]_vars
    /\ [](prog = "Legacy" => IsPrefix(RequestsOf(klog), LegacyRequests))
    /\ []((prog = "Legacy" /\ pc = "sleep" /\ last.err) =>
            /\ klog[Len(klog)].kind \in {"reward", "height", "block"}
            /\ done < cycles)

\* the second pass has started, with its speed requests, after a first pass
\* that ended at its failed height request
C19_Witness ==
    /\ prog = "Legacy"
    /\ cycles = 2
    /\ pc = "speed"
    /\ klog = <<>>
    /\ done = 0
    /\ last.fn = "HeightSendRequest"
    /\ last.err
    /\ sleeps = <<[pass |-> 1, after |-> "height"]>>

BlockTypes == <<"height", "proof", "reward">>

\* the pushes a call logged, attempted or failed, in order
RECURSIVE PushesOf(_)
PushesOf(log) ==
    IF log = <<>> THEN <<>>
    ELSE IF Head(log).kind \in {"push", "push failed"}
         THEN <<Head(log)>> \o PushesOf(Tail(log))
         ELSE PushesOf(Tail(log))

\* C20: BlockPush attempts at most three pushes, in the order height,
\* proof, reward, each under its grouping type: the height push always,
\* the proof push if and only if the proof string parses, the reward push if
\* and only if both strings parse, whether or not an earlier push failed;
\* an accepted push leaves its value in its group.
C20_BlockPushOrder ==
    (prog = "Legacy" /\ pc = "sleep" /\ last.fn = "BlockSendRequest" /\ ~last.err) =>
        LET proof  == parseFloat(last.resp.proof_target)
            reward == parseFloat(last.resp.coinbase_reward)
            n      == IF ~proof.ok THEN 1 ELSE IF ~reward.ok THEN 2 ELSE 3
            vals   == <<last.resp.height, proof.val, reward.val>>
            pushes == PushesOf(klog)
            block  == {i \in 1..Len(pushes) : pushes[i].addrs[1] = "aleo_prover_latest_block"}
            first  == Len(pushes) - n
        IN  /\ Cardinality(block) = n
            /\ block = (first + 1)..Len(pushes)
            /\ \A i \in 1..n :
                 /\ pushes[first + i].addrs = <<"aleo_prover_latest_block", <<Lbl("type", BlockTypes[i])>>>>
                 /\ pushes[first + i].kind = "push" =>
                      Held(pushgateway, "aleo_prover_latest_block", <<Lbl("type", BlockTypes[i])>>)
                          = {Sample("aleo_prover_latest_block", <<>>, vals[i])}

\* BlockPush has made its proof and reward pushes after its height push
\* was rejected
C20_Witness ==
    /\ prog = "Legacy"
    /\ pc = "sleep"
    /\ last.fn = "BlockSendRequest"
    /\ ~last.err
    /\ LET pushes == PushesOf(klog)
       IN  /\ Len(pushes) >= 3
           /\ pushes[Len(pushes) - 2].kind = "push failed"
           /\ pushes[Len(pushes) - 2].addrs[2] = <<Lbl("type", "height")>>
           /\ pushes[Len(pushes) - 1].kind = "push"
           /\ pushes[Len(pushes)].addrs[2] = <<Lbl("type", "reward")>>

\* what fetch function c.fn of src/main.go lines 470-616 does to the
\* collectors g on the response c.resp
P2_Fetched(g, c) ==
    CASE c.fn = "fetchProverSpeed"        -> P2_fetchProverSpeed(g, c.resp, c.arg)
      [] c.fn = "fetchProverReward"       -> P2_fetchProverReward(g, c.resp)
      [] c.fn = "fetchProverLatestHeight" -> P2_fetchProverLatestHeight(g, c.resp)
      [] c.fn = "fetchLatestBlock"        -> P2_fetchLatestBlock(g, c.resp)

\* what fetch function c.fn of src/unnamed/part_001 does to the collectors
\* g on the response c.resp
P3_Fetched(g, c) ==
    CASE c.fn = "fetchProverSpeed"        -> P3_fetchProverSpeed(g, c.resp, c.arg)
      [] c.fn = "fetchProverReward"       -> P3_fetchProverReward(g, c.resp)
      [] c.fn = "fetchProverLatestHeight" -> P3_fetchProverLatestHeight(g, c.resp)
      [] c.fn = "fetchLatestBlock"        -> P3_fetchLatestBlock(g, c.resp)

CollectorNames == {"prover_speed", "total_speed", "total_reward", "prover_height",
                   "latest_block_height", "proof_target", "coinbase_reward"}

\* C21: P2 (src/main.go lines 314-653) and P3 (src/unnamed/part_001) behave
\* alike where no request, decode or push fails.  Both start from the same
\* collectors; both make the requests of a cycle in the same order and with
\* the whole address list; on every response that arrives and decodes, in
\* every collector state either process reaches, the fetch function of P2
\* and that of P3 make the same Set calls and leave the same collectors,
\* and the running process does just that; an accepted push replaces the
\* group of job prover_metrics by the seven collectors in both.  They
\* differ in that P2 has begun one cycle more than it has received ticks
\* while P3 has begun as many, and in that P2 with no address ends in
\* main() before any cycle.
C21_SameOnFailureFreeRuns ==
    /\ [](prog \in {"P2", "P3"} /\ cycles = 0 => gauges = P2_init /\ pushgateway = {})
    /\ []((prog \in {"P2", "P3"} /\ cycles >= 1) =>
            /\ IsPrefix(Kinds(klog), P2_CycleOrder)
            /\ pc # "fatal" => pc = P2_PcAt[Len(klog) + 1]
            /\ \A dn \in DOMAIN durations : sent[dn] <= 1
            /\ Len(klog) >= 4 => \A dn \in DOMAIN durations : sent[dn] = 1
            /\ \A i \in 1..Len(klog) :
                 klog[i].kind \in {"speed", "reward", "height"} => klog[i].addrs = addresses)
    /\ [][(prog \in {"P2", "P3"} /\ pc \in {"speed", "reward", "height", "block"}
                /\ Len(klog') = Len(klog) + 1 /\ last'.resp.err = "none")
             => LET a == P2_Fetched(gauges, last')
                    b == P3_Fetched(gauges, last')
                IN  /\ a = b
                    /\ b = Result(gauges', FALSE, last'.sets)
                    /\ pc' = P2_PcAt[Len(klog') + 1]]_vars
    /\ [][(prog \in {"P2", "P3"} /\ pc = "push" /\ pushgateway' # pushgateway)
             => /\ pushgateway' = Push(pushgateway, "prover_metrics", <<>>, gauges)
                /\ {s.name : s \in Held(pushgateway', "prover_metrics", <<>>)} \subseteq CollectorNames
                /\ pc' = "wait"
                /\ done' = done + 1]_vars
    /\ [](prog = "P2" /\ pc \notin {"init", "fatal"} => cycles = ticksRecv + 1)
    /\ [](prog = "P3" => cycles = ticksRecv)
    /\ [](prog = "P2" /\ StringArrayVar(argv) = <<>> /\ pc # "init" => pc = "fatal" /\ cycles = 0)
    /\ [](prog = "P3" /\ StringArrayVar(argv) = <<>> /\ pc # "init" => pc # "fatal" \/ faults >= 1)

\* P3 has ended its second tick-triggered cycle with an accepted push; the
\* coinbase reward of its latest_block response was not a number
C21_Witness ==
    /\ prog = "P3"
    /\ pc = "wait"
    /\ cycles = 2
    /\ done = 2
    /\ Len(addresses) = 1
    /\ last.fn = "fetchLatestBlock"
    /\ last.resp.err = "none"
    /\ ~parseFloat(last.resp.coinbase_reward).ok
    /\ Sample("proof_target", <<>>, TrueProof(2)) \in Held(pushgateway, "prover_metrics", <<>>)

====
